---- MODULE Spec2Model ----
(***************************************************************************)
(* A model of the oracles data plane:                                      *)
(*   - file_store/src/file_sink.rs: the message channel, the FileSink      *)
(*     (create/init, run, write, maybe_roll, deposit_sink, new_sink);      *)
(*   - iot_packet_verifier/src/verifier.rs: Verifier::verify with its      *)
(*     collaborators (org cache, ledger, burner, packet writers).          *)
(* Time is counted in milliseconds, the resolution of the file names.      *)
(***************************************************************************)
EXTENDS Integers, Sequences, FiniteSets, TLC

(***************************************************************************)
(* Bounds of the model.                                                    *)
(***************************************************************************)
\* the clock runs from 0 to MaxTime
MaxTime == 2
\* number of messages the producers send over the whole behaviour
MaxMsgs == 2
\* number of FileSinkBuilder::create calls (process starts) in a behaviour
MaxCreates == 2

(***************************************************************************)
(* Configuration of the sink, scaled down.                                 *)
(***************************************************************************)
\* FileSinkBuilder.max_size (bytes)
max_size == 3
\* FileSinkBuilder.roll_time (milliseconds)
roll_time == 1
\* message_channel(size)
ChannelSize == 2
\* capacity of the upload notification channel (file_upload::message_channel)
DepositCap == 3

\* T::FILE_NAME of the sink, and the tag of another sink sharing the directories
FILE_NAME == <<1>>
OTHER_NAME == <<2>>

\* the lengths of the payloads producers send (encoded records, opaque bytes)
PayloadLens == {1, 2}

\* the k-th payload sent, of length len: its bytes tell it from the others
Payload(k, len) == [i \in 1..len |-> k]

None == <<>>
Some(x) == <<x>>

VARIABLES
    now,             \* wall clock, ms (Utc::now)
    tmp_dir,         \* tmp_path: file name -> file
    target_dir,      \* target_path: file name -> file
    active_sink,     \* FileSink.active_sink: None or Some(ActiveSink)
    messages,        \* queue of the message channel (MessageSender -> MessageReceiver)
    senders,         \* TRUE while a MessageSender is alive
    nsent,           \* messages sent so far
    has_deposits,    \* FileSink.deposits is Some
    deposits,        \* queue of the upload notification channel
    status,          \* "none" | "ready" | "running" | "stopped" | "failed" | "crashed"
    rollover_timer,  \* deadline of the next tick of rollover_timer
    creates,         \* number of create calls so far
    written,         \* history: payloads for which write returned Ok, in order
    announced        \* history: the paths enqueued on the deposit channel, each with
                     \* whether the file was in the target directory at that moment

sinkvars == <<now, tmp_dir, target_dir, active_sink, messages, senders, nsent,
              has_deposits, deposits, status, rollover_timer, creates, written,
              announced>>

\* the state of the packet verifier
VARIABLES
    config_kind,      \* config_server: "mock" (MockConfigServer) | "cached" (CachedOrgClient)
    burner_kind,      \* burner: "ledger" (the shared balance map) | "sql" (Transaction)
    vstatus,          \* "running" | "ok" | the VerificationError variant returned
    nread,            \* reports taken from the stream
    input,            \* history: the reports taken from the stream, in order
    org_cache,        \* verify's org_cache: oui -> payer
    packets_seen,     \* verify's packets_seen
    balances,         \* Arc<Mutex<HashMap<PublicKeyBinary, u64>>>: payer -> balance
    pending_burns,    \* table pending_burns: payer -> amount
    enabled_clients,  \* CachedOrgClient.enabled_clients: oui -> bool
    server_enabled,   \* the config service's enabled flag of each org
    rpcs,             \* history: the RPCs sent to the config service
    valid_packets,    \* the valid output
    invalid_packets,  \* the invalid output
    calls,            \* history: the collaborator calls of the pass, in order
    classified,       \* history: the records emitted, in order (see Emitted)
    dc_eval,          \* an evaluation of payload_size_to_dc: two sizes and the results
    burn_task,        \* Burner::burn: where the worker is, and its locals payer, amount
    chain_txs,        \* the burn transactions confirmed on chain, in order
    burned,           \* Burner.balances: payer -> Balance.burned
    nburns,           \* number of Burner::burn upserts of the verifier so far
    burner_run,       \* Burner::run: "running" | "returned" (Ok on shutdown) | "failed"
    passes,           \* concurrent passes over the shared balance map: where each
                      \* is, its packets_seen and the report it works on
    server_run        \* poc_mobile_verifier's run_server: the shutdown signal, the
                      \* tasks the try_join! waits for, and its result

burnvars == <<burn_task, chain_txs, burned, nburns, burner_run>>

vervars == <<config_kind, burner_kind, vstatus, nread, input, org_cache, packets_seen,
             balances, pending_burns, enabled_clients, server_enabled, rpcs,
             valid_packets, invalid_packets, calls, classified, dc_eval,
             burn_task, chain_txs, burned, nburns, burner_run, passes,
             server_run>>

(***************************************************************************)
(* Files and their names.                                                  *)
(***************************************************************************)
\* format!("{}.{}.gz", T::FILE_NAME, sink_time.timestamp_millis())
FileName(tag, ms) == [tag |-> tag, ms |-> ms]

\* the characters of a file name: the tag, ".", the timestamp, ".gz"
\* ("." is 0, the timestamp one symbol above 100, ".gz" is 99)
FileNameStr(name) == name.tag \o <<0, 100 + name.ms, 99>>

\* entry.file_name().to_string_lossy().starts_with(T::FILE_NAME)
starts_with(name, tag) ==
    LET str == FileNameStr(name)
    IN  /\ Len(tag) <= Len(str)
        /\ SubSeq(str, 1, Len(tag)) = tag

\* LengthDelimitedCodec: a 4-byte big-endian length, then the payload
Frame(buf) ==
    <<(Len(buf) \div 16777216) % 256, (Len(buf) \div 65536) % 256,
      (Len(buf) \div 256) % 256, Len(buf) % 256>> \o buf

\* the reader of a file: the frames up to the end or a truncated tail
RECURSIVE Decode(_)
Decode(bytes) ==
    IF Len(bytes) < 4 THEN <<>>
    ELSE LET n == bytes[1] * 16777216 + bytes[2] * 65536 + bytes[3] * 256 + bytes[4]
         IN  IF Len(bytes) < 4 + n THEN <<>>
             ELSE <<SubSeq(bytes, 5, 4 + n)>> \o Decode(SubSeq(bytes, 5 + n, Len(bytes)))

\* a directory without one entry
Remove(dir, name) == [n \in DOMAIN dir \ {name} |-> dir[n]]

\* the enumeration orders read_dir may produce for a set of entries
Orders(S) ==
    {o \in [1..Cardinality(S) -> S] : \A i, j \in 1..Cardinality(S) : o[i] = o[j] => i = j}

\* the entries of a directory whose name starts with the tag
Matching(dir, tag) == {n \in DOMAIN dir : starts_with(n, tag)}

(***************************************************************************)
(* The sink's operations, as functions of the record                       *)
(*   s = [active, tmp, target, deposits, announced, res]                   *)
(* res is the Result of the operation: "ok", "err", or "panic".            *)
(***************************************************************************)
SinkState ==
    [active |-> active_sink, tmp |-> tmp_dir, target |-> target_dir,
     deposits |-> deposits, announced |-> announced, res |-> "ok"]

\* file_upload::upload_file: enqueue the path, without blocking; Err when full
upload_file(s, path) ==
    IF Len(s.deposits) < DepositCap
    THEN [s EXCEPT !.deposits = Append(@, path),
                   !.announced = @ \cup {[path |-> path,
                                           present |-> path \in DOMAIN s.target]},
                   !.res = "ok"]
    ELSE [s EXCEPT !.res = "err"]

\* ActiveSink::shutdown: flush the framer, finish the gzip stream, flush the file
ActiveSink_shutdown(s) ==
    LET a == s.active[1]
    IN  IF a.open
        THEN [s EXCEPT !.active = Some([a EXCEPT !.open = FALSE]),
                       !.tmp = IF a.path \in DOMAIN s.tmp
                               THEN [@ EXCEPT ![a.path].sealed = TRUE]
                               ELSE @,
                       !.res = "ok"]
        ELSE [s EXCEPT !.res = "ok"]

\* deposit_sink with the notification sent before the rename
deposit_sink_notify_first(s, sink_path) ==
    IF sink_path \notin DOMAIN s.tmp
    THEN [s EXCEPT !.res = "ok"]
    ELSE LET noted == IF has_deposits THEN upload_file(s, sink_path)
                      ELSE [s EXCEPT !.res = "ok"]
         IN  [noted EXCEPT !.target = (sink_path :> s.tmp[sink_path]) @@ @,
                           !.tmp = Remove(@, sink_path)]

\* deposit_sink that leaves the file where it is
deposit_sink_skip(s, sink_path) ==
    [s EXCEPT !.res = "ok"]

\* FileSink::deposit_sink
deposit_sink(s, sink_path) ==
    IF sink_path \notin DOMAIN s.tmp
    THEN [s EXCEPT !.res = "ok"]
    ELSE LET renamed == [s EXCEPT !.target = (sink_path :> s.tmp[sink_path]) @@ @,
                                  !.tmp = Remove(@, sink_path)]
         IN  IF has_deposits
             THEN upload_file(renamed, sink_path)
             ELSE [renamed EXCEPT !.res = "ok"]

\* FileSink::new_sink at time t
new_sink(s, t) ==
    LET new_path == FileName(FILE_NAME, t)
    IN  [s EXCEPT !.tmp = (new_path :> [bytes |-> <<>>, sealed |-> FALSE]) @@ @,
                  !.active = Some([size |-> 0, path |-> new_path, time |-> t,
                                   open |-> TRUE]),
                  !.res = "ok"]

\* transport.send putting the frame in front of the file's bytes
transport_send_prepend(s, buf, after) ==
    LET a == s.active[1]
    IN  IF a.open /\ a.path \in DOMAIN s.tmp
        THEN [s EXCEPT !.tmp[a.path].bytes = Frame(buf) \o @,
                       !.active = Some([a EXCEPT !.size = @ + Len(buf)]),
                       !.res = "ok"]
        ELSE [s EXCEPT !.res = after]

\* transport.send without the update of the size counter
transport_send_no_count(s, buf, after) ==
    LET a == s.active[1]
    IN  IF a.open /\ a.path \in DOMAIN s.tmp
        THEN [s EXCEPT !.tmp[a.path].bytes = @ \o Frame(buf), !.res = "ok"]
        ELSE [s EXCEPT !.res = after]

\* active_sink.transport.send(buf) and the size update; a send on a transport
\* that was shut down fails: with an error or with a panic (after)
transport_send(s, buf, after) ==
    LET a == s.active[1]
    IN  IF a.open /\ a.path \in DOMAIN s.tmp
        THEN [s EXCEPT !.tmp[a.path].bytes = @ \o Frame(buf),
                       !.active = Some([a EXCEPT !.size = @ + Len(buf)]),
                       !.res = "ok"]
        ELSE [s EXCEPT !.res = after]

\* write with a size check that rolls only far past max_size
write_roll_late(s, buf, t, after) ==
    LET s1 == IF s.active # None
              THEN IF s.active[1].size + Len(buf) > max_size + 8
                   THEN LET sh == ActiveSink_shutdown(s)
                            d == deposit_sink(sh, sh.active[1].path)
                        IN  IF d.res # "ok" THEN d ELSE new_sink(d, t)
                   ELSE [s EXCEPT !.res = "ok"]
              ELSE new_sink(s, t)
    IN  IF s1.res # "ok" THEN s1 ELSE transport_send(s1, buf, after)

\* FileSink::write at time t
write(s, buf, t, after) ==
    LET s1 == IF s.active # None
              THEN IF s.active[1].size + Len(buf) >= max_size
                   THEN LET sh == ActiveSink_shutdown(s)
                            d == deposit_sink(sh, sh.active[1].path)
                        IN  IF d.res # "ok" THEN d ELSE new_sink(d, t)
                   ELSE [s EXCEPT !.res = "ok"]
              ELSE new_sink(s, t)
    IN  IF s1.res # "ok" THEN s1 ELSE transport_send(s1, buf, after)

\* FileSink::maybe_roll at time t
maybe_roll(s, t) ==
    IF s.active # None /\ s.active[1].time + roll_time > t
    THEN LET sh == ActiveSink_shutdown(s)
             d == deposit_sink(sh, sh.active[1].path)
         IN  IF d.res # "ok" THEN d ELSE [d EXCEPT !.active = None]
    ELSE [s EXCEPT !.res = "ok"]

\* the end of FileSink::run, after the loop
run_stop(s) ==
    IF s.active # None
    THEN [ActiveSink_shutdown(s) EXCEPT !.active = None, !.res = "ok"]
    ELSE [s EXCEPT !.res = "ok"]

\* FileSink::init, first loop: move the files left in tmp to the target
RECURSIVE init_recover(_, _, _)
init_recover(s, order, i) ==
    IF i > Len(order) THEN [s EXCEPT !.res = "ok"]
    ELSE init_recover(deposit_sink(s, order[i]), order, i + 1)

\* FileSink::init, second loop: notify all existing completed sinks
RECURSIVE init_notify(_, _, _)
init_notify(s, order, i) ==
    IF i > Len(order) THEN [s EXCEPT !.res = "ok"]
    ELSE LET u == upload_file(s, order[i])
         IN  IF u.res # "ok" THEN u ELSE init_notify(u, order, i + 1)

(***************************************************************************)
(* Initial state: fresh directories, or the directories a previous         *)
(* instance left behind after a clean shutdown (its last file, sealed, in  *)
(* tmp, and its payload in the history).  Another sink's file lies in tmp. *)
(***************************************************************************)
OtherFile == [bytes |-> Frame(Payload(9, 1)), sealed |-> FALSE]
LeftFile == [bytes |-> Frame(Payload(0, 1)), sealed |-> TRUE]

SinkInit ==
    /\ now = 1
    /\ tmp_dir \in {FileName(OTHER_NAME, 0) :> OtherFile,
                    (FileName(OTHER_NAME, 0) :> OtherFile)
                        @@ (FileName(FILE_NAME, 0) :> LeftFile)}
    /\ target_dir = <<>>
    /\ active_sink = None
    /\ messages = <<>>
    /\ senders = TRUE
    /\ nsent = 0
    /\ has_deposits \in BOOLEAN
    /\ deposits = <<>>
    /\ status = "none"
    /\ rollover_timer = 0
    /\ creates = 0
    /\ written = IF FileName(FILE_NAME, 0) \in DOMAIN tmp_dir
                 THEN Decode(LeftFile.bytes) ELSE <<>>
    /\ announced = {}

\* the tag of a sink whose tag starts with this sink's tag, and a file it
\* opened and left in the shared tmp directory
LONGER_NAME == FILE_NAME \o <<3>>
LongerFile == [bytes |-> Frame(Payload(8, 1)), sealed |-> TRUE]

\* the sink before create in directories it shares with two other sinks
SharedInit ==
    /\ now = 1
    /\ tmp_dir \in {(FileName(OTHER_NAME, 0) :> OtherFile)
                        @@ (FileName(LONGER_NAME, 0) :> LongerFile),
                    (FileName(OTHER_NAME, 0) :> OtherFile)
                        @@ (FileName(LONGER_NAME, 0) :> LongerFile)
                        @@ (FileName(FILE_NAME, 0) :> LeftFile)}
    /\ target_dir = <<>>
    /\ active_sink = None
    /\ messages = <<>>
    /\ senders = TRUE
    /\ nsent = 0
    /\ has_deposits \in BOOLEAN
    /\ deposits = <<>>
    /\ status = "none"
    /\ rollover_timer = 0
    /\ creates = 0
    /\ written = IF FileName(FILE_NAME, 0) \in DOMAIN tmp_dir
                 THEN Decode(LeftFile.bytes) ELSE <<>>
    /\ announced = {}

\* the primed sink fields an operation's result s assigns
Assign(s) ==
    /\ active_sink' = s.active
    /\ tmp_dir' = s.tmp
    /\ target_dir' = s.target
    /\ deposits' = s.deposits
    /\ announced' = s.announced

(***************************************************************************)
(* Actions of the sink.                                                    *)
(***************************************************************************)
\* run is over (it returned, or its task died): the receiver's queue and the
\* interval are gone with it
Stopped(how) ==
    /\ status' = how
    /\ messages' = <<>>
    /\ senders' = FALSE
    /\ rollover_timer' = 0

\* FileSinkBuilder::create: a new FileSink over the directories, then init.
\* An instance that exists is dropped; its message channel goes with it.
\* After a run the create is that of a new process: run_server makes a new
\* upload channel (file_upload::message_channel) before it creates the sinks.
\* When init fails no sink is returned.
Create ==
    /\ status # "running"
    /\ creates < MaxCreates
    /\ LET s0 == [SinkState EXCEPT !.active = None,
                                  !.deposits = IF status \in {"none", "ready"}
                                               THEN @ ELSE <<>>]
       IN  \E o1 \in Orders(Matching(s0.tmp, FILE_NAME)) :
             LET s1 == init_recover(s0, o1, 1)
             IN  \E o2 \in Orders(Matching(s1.target, FILE_NAME)) :
                   LET s2 == IF has_deposits THEN init_notify(s1, o2, 1) ELSE s1
                   IN  /\ Assign(s2)
                       /\ status' = IF s2.res = "ok" THEN "ready" ELSE "none"
    /\ creates' = creates + 1
    /\ messages' = <<>>
    /\ senders' = TRUE
    /\ UNCHANGED <<now, nsent, has_deposits, rollover_timer, written>>
    /\ UNCHANGED vervars

\* FileSink::run up to the loop: the interval's first tick is due at once
StartRun ==
    /\ status = "ready"
    /\ status' = "running"
    /\ rollover_timer' = now
    /\ UNCHANGED <<now, tmp_dir, target_dir, active_sink, messages, senders, nsent,
                   has_deposits, deposits, creates, written, announced>>
    /\ UNCHANGED vervars

\* the shutdown trigger fires and select! takes `_ = shutdown.clone() => break`;
\* then the code after the loop
RunShutdown ==
    /\ status = "running"
    /\ Assign(run_stop(SinkState))
    /\ Stopped("stopped")
    /\ UNCHANGED <<now, nsent, has_deposits, creates, written>>
    /\ UNCHANGED vervars

\* select!: _ = rollover_timer.tick() => self.maybe_roll().await?
\* (MissedTickBehavior::Delay: the next tick is roll_time after this one)
RunTick ==
    /\ status = "running"
    /\ now >= rollover_timer
    /\ LET s == maybe_roll(SinkState, now)
       IN  /\ Assign(s)
           /\ IF s.res = "ok"
              THEN /\ rollover_timer' = now + roll_time
                   /\ UNCHANGED <<status, messages, senders>>
              ELSE Stopped("failed")
    /\ UNCHANGED <<now, nsent, has_deposits, creates, written>>
    /\ UNCHANGED vervars

\* select!: msg = self.messages.rx.recv(), Some(buf) => self.write(buf);
\* an error of write is logged
RunRecv ==
    /\ status = "running"
    /\ messages # <<>>
    /\ \E after \in {"err", "panic"} :
         LET buf == Head(messages)
             s == write(SinkState, buf, now, after)
         IN  /\ Assign(s)
             /\ written' = IF s.res = "ok" THEN Append(written, buf) ELSE written
             /\ IF s.res = "panic"
                THEN Stopped("crashed")
                ELSE /\ messages' = Tail(messages)
                     /\ UNCHANGED <<status, senders, rollover_timer>>
    /\ UNCHANGED <<now, nsent, has_deposits, creates>>
    /\ UNCHANGED vervars

\* select!: msg = self.messages.rx.recv(), None => break; then the code after
\* the loop
RunEof ==
    /\ status = "running"
    /\ messages = <<>>
    /\ ~senders
    /\ Assign(run_stop(SinkState))
    /\ Stopped("stopped")
    /\ UNCHANGED <<now, nsent, has_deposits, creates, written>>
    /\ UNCHANGED vervars

\* MessageSender::write: send on the bounded channel; waits while it is full
Send ==
    /\ status = "running"
    /\ senders
    /\ nsent < MaxMsgs
    /\ Len(messages) < ChannelSize
    /\ \E len \in PayloadLens : messages' = Append(messages, Payload(nsent + 1, len))
    /\ nsent' = nsent + 1
    /\ UNCHANGED <<now, tmp_dir, target_dir, active_sink, senders, has_deposits,
                   deposits, status, rollover_timer, creates, written, announced>>
    /\ UNCHANGED vervars

\* the last MessageSender is dropped
DropSenders ==
    /\ status = "running"
    /\ senders
    /\ senders' = FALSE
    /\ UNCHANGED <<now, tmp_dir, target_dir, active_sink, messages, nsent,
                   has_deposits, deposits, status, rollover_timer, creates, written,
                   announced>>
    /\ UNCHANGED vervars

\* a millisecond passes
Advance ==
    /\ now < MaxTime
    /\ now' = now + 1
    /\ UNCHANGED <<tmp_dir, target_dir, active_sink, messages, senders, nsent,
                   has_deposits, deposits, status, rollover_timer, creates, written,
                   announced>>
    /\ UNCHANGED vervars

\* the uploader, which run_server runs beside the sinks, takes a path from the
\* notification channel
UploaderRecv ==
    /\ status = "running"
    /\ deposits # <<>>
    /\ deposits' = Tail(deposits)
    /\ UNCHANGED <<now, tmp_dir, target_dir, active_sink, messages, senders, nsent,
                   has_deposits, status, rollover_timer, creates, written, announced>>
    /\ UNCHANGED vervars

\* the lengths a file of n bytes that was open when its writer died may be
\* left with: all of it, a tail cut inside the last frame, or nothing
CrashLengths(n) == {0, n} \cup {k \in {n - 1} : k >= 0}

\* the task running the sink is cancelled or the process killed: the open
\* file stays in tmp without its gzip trailer, perhaps truncated
Crash ==
    /\ status = "running"
    /\ Stopped("crashed")
    /\ active_sink' = None
    /\ IF active_sink # None /\ active_sink[1].open
              /\ active_sink[1].path \in DOMAIN tmp_dir
       THEN \E k \in CrashLengths(Len(tmp_dir[active_sink[1].path].bytes)) :
              tmp_dir' = [tmp_dir EXCEPT ![active_sink[1].path].bytes = SubSeq(@, 1, k)]
       ELSE tmp_dir' = tmp_dir
    /\ UNCHANGED <<now, target_dir, nsent, has_deposits, deposits, creates, written,
                   announced>>
    /\ UNCHANGED vervars

(***************************************************************************)
(* Filesystem errors.  An operation of the sink on the file system may     *)
(* return an io::Error: the writer's shutdown (flush), the rename of       *)
(* deposit_sink, the open of new_sink, the send of a frame.  The           *)
(* operations below are write and maybe_roll with one such error at the    *)
(* place `fault` names; res is "skip" when the call does not reach that    *)
(* place.                                                                  *)
(***************************************************************************)
IoFaults == {"shutdown", "rename", "open", "send"}

\* shutdown, deposit_sink of the active file with an error at fault, if any:
\* a failed shutdown leaves the writer unfinished, a failed rename leaves the
\* sealed file in tmp
seal_promote_io(s, fault) ==
    IF fault = "shutdown" THEN [s EXCEPT !.res = "err"]
    ELSE LET sh == ActiveSink_shutdown(s)
         IN  IF fault = "rename"
             THEN IF sh.active[1].path \in DOMAIN sh.tmp
                  THEN [sh EXCEPT !.res = "err"]
                  ELSE [sh EXCEPT !.res = "skip"]
             ELSE deposit_sink(sh, sh.active[1].path)

\* FileSink::maybe_roll at time t with a filesystem error at fault
maybe_roll_io(s, t, fault) ==
    IF s.active # None /\ s.active[1].time + roll_time > t
           /\ fault \in {"shutdown", "rename"}
    THEN seal_promote_io(s, fault)
    ELSE [s EXCEPT !.res = "skip"]

\* FileSink::write at time t with a filesystem error at fault
write_io(s, buf, t, fault) ==
    LET s1 == IF s.active # None
              THEN IF s.active[1].size + Len(buf) >= max_size
                   THEN LET d == seal_promote_io(s, fault)
                        IN  IF d.res # "ok" THEN d
                            ELSE IF fault = "open" THEN [d EXCEPT !.res = "err"]
                            ELSE new_sink(d, t)
                   ELSE [s EXCEPT !.res = "ok"]
              ELSE IF fault = "open" THEN [s EXCEPT !.res = "err"]
                   ELSE new_sink(s, t)
    IN  IF s1.res # "ok" THEN s1
        ELSE IF fault = "send" THEN [s1 EXCEPT !.res = "err"]
        ELSE [s1 EXCEPT !.res = "skip"]

\* select!: the tick arm, with a filesystem error in maybe_roll: the `?`
\* returns it from run
RunTickIo ==
    /\ status = "running"
    /\ now >= rollover_timer
    /\ \E fault \in IoFaults :
         LET s == maybe_roll_io(SinkState, now, fault)
         IN  /\ s.res = "err"
             /\ Assign(s)
    /\ Stopped("failed")
    /\ UNCHANGED <<now, nsent, has_deposits, creates, written>>
    /\ UNCHANGED vervars

\* select!: the message arm, with a filesystem error in write: the error is
\* logged and the loop goes on
RunRecvIo ==
    /\ status = "running"
    /\ messages # <<>>
    /\ \E fault \in IoFaults :
         LET s == write_io(SinkState, Head(messages), now, fault)
         IN  /\ s.res = "err"
             /\ Assign(s)
    /\ messages' = Tail(messages)
    /\ UNCHANGED <<now, nsent, has_deposits, status, senders, rollover_timer, creates,
                   written>>
    /\ UNCHANGED vervars

\* the sink on a file system whose operations may fail
SinkIoNext ==
    \/ Create
    \/ StartRun
    \/ RunEof
    \/ RunShutdown
    \/ RunTick
    \/ RunRecv
    \/ RunTickIo
    \/ RunRecvIo
    \/ Send
    \/ DropSenders
    \/ Advance
    \/ UploaderRecv
    \/ Crash

SinkNext ==
    \/ Create
    \/ StartRun
    \/ RunEof
    \/ RunShutdown
    \/ RunTick
    \/ RunRecv
    \/ Send
    \/ DropSenders
    \/ Advance
    \/ UploaderRecv
    \/ Crash

(***************************************************************************)
(* The packet verifier: Verifier::verify and its collaborators.            *)
(***************************************************************************)
\* number of reports the input stream yields in a pass, at most
MaxReports == 3

\* the organizations, and the payer (owner) the config service names for each
Ouis == {0, 1}
Owner(oui) == 10 + oui
Payers == {Owner(oui) : oui \in Ouis}

\* the packet reports of the input stream: packets that differ in the
\* timestamp only, in the hash only, in the org, and in the size
Reports ==
    {r \in [gateway_timestamp_ms : {0, 1}, oui : Ouis, payload_hash : {<<1>>, <<2>>},
            payload_size : {1, 48}, gateway : {<<>>}] :
        r.gateway_timestamp_ms = 0 \/ r.payload_hash = <<1>>}

\* the collaborator a fault of the environment makes fail in an iteration;
\* "enable_org" and "disable_org" are a failure of keypair.sign (no request is
\* sent), "enable_rpc" and "disable_rpc" a request that returns an error
FailPoints ==
    {"none", "fetch_org", "debit", "valid_writer", "invalid_writer",
     "enable_org", "enable_rpc", "disable_org", "disable_rpc"}

\* payload sizes payload_size_to_dc is evaluated on: 0..MaxPayloadSize
MaxPayloadSize == 72

\* no evaluation of payload_size_to_dc going on
DcIdle == [a |-> 0, b |-> 0, out |-> <<>>]

\* the debit amount rounding up to whole quanta
payload_size_to_dc_ceil(payload_size) ==
    (payload_size + 23) \div 24

\* payload_size_to_dc
payload_size_to_dc(payload_size) ==
    (IF payload_size > 24 THEN payload_size ELSE 24) \div 24

\* PacketId of a report
PacketId(report) ==
    [ts |-> report.gateway_timestamp_ms, oui |-> report.oui,
     hash |-> report.payload_hash]

\* history entry of a record emitted for a report: its packet id, the output
\* it went to and its debit amount
Emitted(report, valid) ==
    [id |-> PacketId(report), valid |-> valid,
     amount |-> payload_size_to_dc(report.payload_size)]

\* the state a pass works on, as a record; res is "ok" or the error's origin
VerState ==
    [org_cache |-> org_cache, packets_seen |-> packets_seen, balances |-> balances,
     pending_burns |-> pending_burns, enabled_clients |-> enabled_clients,
     server_enabled |-> server_enabled, rpcs |-> rpcs,
     valid_packets |-> valid_packets, invalid_packets |-> invalid_packets,
     calls |-> calls, classified |-> classified, res |-> "ok"]

Call(v, op, arg, amount) ==
    [v EXCEPT !.calls = Append(@, [op |-> op, arg |-> arg, amount |-> amount])]

\* a request sent to the config service and answered
Rpc(v, op, oui) ==
    [v EXCEPT !.rpcs = Append(@, [op |-> op, oui |-> oui, ok |-> TRUE])]

\* a request sent to the config service that returned a tonic::Status error
RpcFailed(v, op, oui) ==
    [v EXCEPT !.rpcs = Append(@, [op |-> op, oui |-> oui, ok |-> FALSE]),
              !.res = "ConfigError"]

\* fetch_org asking the service on every call
fetch_org_always_ask(v, oui, fail) ==
    LET c == Call(v, "fetch_org", oui, 0)
    IN  IF config_kind = "mock"
        THEN c
        ELSE IF fail = "fetch_org"
             THEN RpcFailed(c, "get", oui)
             ELSE [Rpc(c, "get", oui) EXCEPT !.org_cache = (oui :> Owner(oui)) @@ @]

\* ConfigServer::fetch_org: CachedOrgClient asks the service on a miss and
\* caches the owner; MockConfigServer looks the payer up
fetch_org(v, oui, fail) ==
    LET c == Call(v, "fetch_org", oui, 0)
    IN  IF config_kind = "mock" \/ oui \in DOMAIN c.org_cache
        THEN c
        ELSE IF fail = "fetch_org"
             THEN RpcFailed(c, "get", oui)
             ELSE [Rpc(c, "get", oui) EXCEPT !.org_cache = (oui :> Owner(oui)) @@ @]

\* the sufficiency test with a strict comparison
Sufficient_strict(v, payer, amount) == v.balances[payer] > amount

\* Debiter::debit_if_sufficient of the balance map: the answer
Sufficient(v, payer, amount) == v.balances[payer] >= amount

\* Debiter::debit_if_sufficient: the call (nothing is debited)
debit_if_sufficient(v, payer, amount, fail) ==
    LET c == Call(v, "debit_if_sufficient", payer, amount)
    IN  IF config_kind = "cached" /\ fail = "debit"
        THEN [c EXCEPT !.res = "DebitError"]
        ELSE c

\* Burner::burn: the balance map subtracts the amount; the Transaction adds
\* it to the payer's row of pending_burns, and its fetch_one finds no row
\* to return (the statement has no RETURNING): Err(RowNotFound)
burn(v, payer, amount) ==
    LET c == Call(v, "burn", payer, amount)
    IN  IF burner_kind = "ledger"
        THEN [c EXCEPT !.balances[payer] = @ - amount]
        ELSE [c EXCEPT !.pending_burns[payer] = @ + amount, !.res = "BurnError"]

\* PacketWriter<ValidPacket>::write
write_valid(v, report, fail) ==
    LET c == Call(v, "write_valid", report.oui, 0)
    IN  IF config_kind = "cached" /\ fail = "valid_writer"
        THEN [c EXCEPT !.res = "ValidPacketWriterError"]
        ELSE [c EXCEPT !.valid_packets =
                          Append(@, [payload_size |-> report.payload_size,
                                     gateway |-> report.gateway,
                                     payload_hash |-> report.payload_hash]),
                       !.classified = Append(@, Emitted(report, TRUE))]

\* PacketWriter<InvalidPacket>::write
write_invalid(v, report, fail) ==
    LET c == Call(v, "write_invalid", report.oui, 0)
    IN  IF config_kind = "cached" /\ fail = "invalid_writer"
        THEN [c EXCEPT !.res = "InvalidPacketWriterError"]
        ELSE [c EXCEPT !.invalid_packets =
                          Append(@, [payload_size |-> report.payload_size,
                                     gateway |-> report.gateway,
                                     payload_hash |-> report.payload_hash]),
                       !.classified = Append(@, Emitted(report, FALSE))]

\* enable_org taking an absent local flag as true
enable_org_default_true(v, oui, fail) ==
    LET c == Call(v, "enable_org", oui, 0)
    IN  IF config_kind = "mock"
        THEN [c EXCEPT !.server_enabled[oui] = TRUE]
        ELSE LET old == IF oui \in DOMAIN c.enabled_clients
                        THEN c.enabled_clients[oui] ELSE TRUE
                 set == [c EXCEPT !.enabled_clients = (oui :> TRUE) @@ @]
             IN  IF old THEN set
                 ELSE IF fail = "enable_org"
                      THEN [set EXCEPT !.res = "ConfigError"]
                      ELSE IF fail = "enable_rpc"
                      THEN RpcFailed(set, "enable", oui)
                      ELSE [Rpc(set, "enable", oui) EXCEPT !.server_enabled[oui] = TRUE]

\* ConfigServer::enable_org: MockConfigServer sets the flag; CachedOrgClient
\* sets its local flag, inserted as false when absent, and sends the signed
\* request when the flag was false
enable_org(v, oui, fail) ==
    LET c == Call(v, "enable_org", oui, 0)
    IN  IF config_kind = "mock"
        THEN [c EXCEPT !.server_enabled[oui] = TRUE]
        ELSE LET old == IF oui \in DOMAIN c.enabled_clients
                        THEN c.enabled_clients[oui] ELSE FALSE
                 set == [c EXCEPT !.enabled_clients = (oui :> TRUE) @@ @]
             IN  IF old THEN set
                 ELSE IF fail = "enable_org"
                      THEN [set EXCEPT !.res = "ConfigError"]
                      ELSE IF fail = "enable_rpc"
                      THEN RpcFailed(set, "enable", oui)
                      ELSE [Rpc(set, "enable", oui) EXCEPT !.server_enabled[oui] = TRUE]

\* disable_org taking an absent local flag as false
disable_org_default_false(v, oui, fail) ==
    LET c == Call(v, "disable_org", oui, 0)
    IN  IF config_kind = "mock"
        THEN [c EXCEPT !.server_enabled[oui] = FALSE]
        ELSE LET old == IF oui \in DOMAIN c.enabled_clients
                        THEN c.enabled_clients[oui] ELSE FALSE
                 set == [c EXCEPT !.enabled_clients = (oui :> FALSE) @@ @]
             IN  IF ~old THEN set
                 ELSE IF fail = "disable_org"
                      THEN [set EXCEPT !.res = "ConfigError"]
                      ELSE IF fail = "disable_rpc"
                      THEN RpcFailed(set, "disable", oui)
                      ELSE [Rpc(set, "disable", oui) EXCEPT !.server_enabled[oui] = FALSE]

\* ConfigServer::disable_org: MockConfigServer clears the flag; CachedOrgClient
\* clears its local flag, inserted as true when absent, and sends the signed
\* request when the flag was true
disable_org(v, oui, fail) ==
    LET c == Call(v, "disable_org", oui, 0)
    IN  IF config_kind = "mock"
        THEN [c EXCEPT !.server_enabled[oui] = FALSE]
        ELSE LET old == IF oui \in DOMAIN c.enabled_clients
                        THEN c.enabled_clients[oui] ELSE TRUE
                 set == [c EXCEPT !.enabled_clients = (oui :> FALSE) @@ @]
             IN  IF ~old THEN set
                 ELSE IF fail = "disable_org"
                      THEN [set EXCEPT !.res = "ConfigError"]
                      ELSE IF fail = "disable_rpc"
                      THEN RpcFailed(set, "disable", oui)
                      ELSE [Rpc(set, "disable", oui) EXCEPT !.server_enabled[oui] = FALSE]

\* the sufficient branch going on to the valid writer after a failed burn
verify_valid_keep_going(v, report, payer, debit_amount, fail) ==
    LET b == burn(v, payer, debit_amount)
        w == write_valid(b, report, fail)
    IN  IF w.res # "ok" THEN w ELSE enable_org(w, report.oui, fail)

\* the branch of verify for a report whose debit is sufficient
verify_valid(v, report, payer, debit_amount, fail) ==
    LET b == burn(v, payer, debit_amount)
    IN  IF b.res # "ok" THEN b
        ELSE LET w == write_valid(b, report, fail)
             IN  IF w.res # "ok" THEN w ELSE enable_org(w, report.oui, fail)

\* the branch of verify for a report whose debit is not sufficient
verify_invalid(v, report, fail) ==
    LET w == write_invalid(v, report, fail)
    IN  IF w.res # "ok" THEN w ELSE disable_org(w, report.oui, fail)

\* the body of verify's loop without the insertion into packets_seen
verify_report_no_insert(v, report, fail) ==
    LET debit_amount == payload_size_to_dc(report.payload_size)
        packet_id == PacketId(report)
    IN  IF packet_id \in v.packets_seen THEN v
        ELSE LET f == fetch_org(v, report.oui, fail)
                 payer == Owner(report.oui)
             IN  IF f.res # "ok" THEN f
                 ELSE LET d == debit_if_sufficient(f, payer, debit_amount, fail)
                      IN  IF d.res # "ok" THEN d
                          ELSE IF Sufficient(d, payer, debit_amount)
                               THEN verify_valid(d, report, payer, debit_amount, fail)
                               ELSE verify_invalid(d, report, fail)

\* the body of verify's loop, for one report of the stream
verify_report(v, report, fail) ==
    LET debit_amount == payload_size_to_dc(report.payload_size)
        packet_id == PacketId(report)
    IN  IF packet_id \in v.packets_seen THEN v
        ELSE LET s == [v EXCEPT !.packets_seen = @ \cup {packet_id}]
                 f == fetch_org(s, report.oui, fail)
                 payer == IF config_kind = "mock" THEN Owner(report.oui)
                          ELSE f.org_cache[report.oui]
             IN  IF f.res # "ok" THEN f
                 ELSE LET d == debit_if_sufficient(f, payer, debit_amount, fail)
                      IN  IF d.res # "ok" THEN d
                          ELSE IF Sufficient(d, payer, debit_amount)
                               THEN verify_valid(d, report, payer, debit_amount, fail)
                               ELSE verify_invalid(d, report, fail)

(***************************************************************************)
(* The burn worker: Burner::run and Burner::burn (burner.rs), with the     *)
(* verifier's upserts into pending_burns going on beside it.               *)
(***************************************************************************)
\* BURN_THRESHOLD
BURN_THRESHOLD == 10000

\* number of upserts of the verifier in a behaviour
MaxBurns == 3

\* the amounts the verifier adds to a row
BurnAmounts == {1, 9999, 10000}

\* the verify passes that run concurrently over one balance map
Passes == {1, 2}

\* the report of a pass that is between two reports
NoReport == [gateway_timestamp_ms |-> 0, oui |-> 0, payload_hash |-> <<>>,
             payload_size |-> 0, gateway |-> <<>>]

\* no concurrent passes
PassIdle == passes = <<>>

\* the concurrent passes before their first report
PassInit == passes = [i \in Passes |-> [pc |-> "idle", seen |-> {}, report |-> NoReport]]

\* the file sinks of run_server: valid shares, invalid shares, subnetwork
\* rewards
ServerSinks == {"shares", "invalid_shares", "subnet"}

\* run_server not called
ServerIdle == server_run = <<>>

\* no worker iteration going on, nothing pending
BurnIdle ==
    /\ burn_task = [pc |-> "idle", payer |-> 0, amount |-> 0]
    /\ chain_txs = <<>>
    /\ burned = [p \in Payers |-> 0]
    /\ nburns = 0
    /\ burner_run = "running"

\* the part of the verifier's state the burn worker does not touch
BurnFrame ==
    /\ UNCHANGED <<config_kind, burner_kind, vstatus, nread, input, org_cache,
                   packets_seen, balances, enabled_clients, server_enabled, rpcs,
                   valid_packets, invalid_packets, calls, classified, dc_eval,
                   passes, server_run>>
    /\ UNCHANGED sinkvars

\* BalanceCache's side of a debit: the amount is counted as burned until the
\* worker has burned it on chain
cache_debit(b, payer, amount) == [b EXCEPT ![payer] = @ + amount]

\* the verifier burns: Burner::burn of the Transaction adds the amount to the
\* payer's row of pending_burns
VerifierBurn ==
    /\ nburns < MaxBurns
    /\ \E p \in Payers, x \in BurnAmounts :
          /\ pending_burns' = [pending_burns EXCEPT ![p] = @ + x]
          /\ burned' = cache_debit(burned, p, x)
    /\ nburns' = nburns + 1
    /\ UNCHANGED <<burn_task, chain_txs, burner_run>>
    /\ BurnFrame

\* the rows the worker's SELECT can return
Burnable == {p \in Payers : pending_burns[p] >= BURN_THRESHOLD}

\* Burner::burn up to the SELECT: no row at the threshold, return Ok(()) and
\* sleep; otherwise take the first row's payer and amount
BurnSelect ==
    /\ burn_task.pc = "idle"
    /\ Burnable # {}
    /\ \E p \in Burnable :
          burn_task' = [pc |-> "selected", payer |-> p, amount |-> pending_burns[p]]
    /\ UNCHANGED <<pending_burns, chain_txs, burned, nburns, burner_run>>
    /\ BurnFrame

\* send_and_confirm_transaction returns Ok: the burn is on chain
BurnTransact ==
    /\ burn_task.pc = "selected"
    /\ chain_txs' = Append(chain_txs, [payer |-> burn_task.payer,
                                        amount |-> burn_task.amount,
                                        settled |-> FALSE])
    /\ burn_task' = [burn_task EXCEPT !.pc = "confirmed"]
    /\ UNCHANGED <<pending_burns, burned, nburns, burner_run>>
    /\ BurnFrame

\* the UPDATE writing the row as the amount read less the amount burned
BurnUpdateRow_reset ==
    /\ burn_task.pc = "confirmed"
    /\ pending_burns' = [pending_burns EXCEPT ![burn_task.payer] = 0]
    /\ chain_txs' = [chain_txs EXCEPT ![Len(chain_txs)].settled = TRUE]
    /\ burn_task' = [burn_task EXCEPT !.pc = "row_updated"]
    /\ UNCHANGED <<burned, nburns, burner_run>>
    /\ BurnFrame

\* UPDATE pending_burns SET amount = amount - $1
BurnUpdateRow ==
    /\ burn_task.pc = "confirmed"
    /\ pending_burns' = [pending_burns EXCEPT ![burn_task.payer] = @ - burn_task.amount]
    /\ chain_txs' = [chain_txs EXCEPT ![Len(chain_txs)].settled = TRUE]
    /\ burn_task' = [burn_task EXCEPT !.pc = "row_updated"]
    /\ UNCHANGED <<burned, nburns, burner_run>>
    /\ BurnFrame

\* self.balances.lock().await.get_mut(&payer).unwrap().burned -= amount;
\* the iteration is over, the loop sleeps and starts the next one
BurnUpdateBalance ==
    /\ burn_task.pc = "row_updated"
    /\ burned' = [burned EXCEPT ![burn_task.payer] = @ - burn_task.amount]
    /\ burn_task' = [pc |-> "idle", payer |-> 0, amount |-> 0]
    /\ UNCHANGED <<pending_burns, chain_txs, nburns, burner_run>>
    /\ BurnFrame

\* an RPC or a statement of the iteration returns an error: `?` ends
\* Burner::burn and the spawned loop, and Burner::run, when it still waits
\* in its select!, returns the task's result
BurnFail ==
    /\ burn_task.pc \in {"selected", "confirmed"}
    /\ burn_task' = [burn_task EXCEPT !.pc = "failed"]
    /\ burner_run' = IF burner_run = "running" THEN "failed" ELSE burner_run
    /\ UNCHANGED <<pending_burns, chain_txs, burned, nburns>>
    /\ BurnFrame

\* Burner::run's select! takes the shutdown arm and returns Ok(()): the
\* JoinHandle burn_service is dropped, which detaches the spawned task and
\* does not cancel it
BurnerShutdown ==
    /\ burner_run = "running"
    /\ burner_run' = "returned"
    /\ UNCHANGED <<burn_task, pending_burns, chain_txs, burned, nburns>>
    /\ BurnFrame

BurnNext ==
    \/ BurnerShutdown
    \/ VerifierBurn
    \/ BurnSelect
    \/ BurnTransact
    \/ BurnUpdateRow
    \/ BurnUpdateBalance
    \/ BurnFail

\* the balances of the payers before a pass
InitBalances == [p \in Payers |-> IF p = Owner(0) THEN 1 ELSE 3]

VerInit ==
    /\ config_kind \in {"mock", "cached"}
    /\ burner_kind \in {"ledger", "sql"}
    /\ vstatus = "running"
    /\ nread = 0
    /\ input = <<>>
    /\ org_cache = <<>>
    /\ packets_seen = {}
    /\ balances = InitBalances
    /\ pending_burns = [p \in Payers |-> 0]
    /\ enabled_clients = <<>>
    /\ server_enabled \in {[o \in Ouis |-> b] :
                             b \in IF config_kind = "cached" THEN BOOLEAN ELSE {FALSE}}
    /\ rpcs = <<>>
    /\ valid_packets = <<>>
    /\ invalid_packets = <<>>
    /\ calls = <<>>
    /\ classified = <<>>
    /\ dc_eval = DcIdle
    /\ BurnIdle
    /\ PassIdle
    /\ ServerIdle

\* the faults the collaborators in use can show: the test collaborators
\* (Error = ()) never fail
Faults == IF config_kind = "cached" THEN FailPoints ELSE {"none"}

\* one iteration of `while let Some(report) = reports.next().await`
VerifyReport ==
    /\ vstatus = "running"
    /\ nread < MaxReports
    /\ \E report \in Reports, fail \in Faults :
         LET v == verify_report(VerState, report, fail)
         IN  /\ input' = Append(input, report)
             /\ org_cache' = v.org_cache
             /\ packets_seen' = v.packets_seen
             /\ balances' = v.balances
             /\ pending_burns' = v.pending_burns
             /\ enabled_clients' = v.enabled_clients
             /\ server_enabled' = v.server_enabled
             /\ rpcs' = v.rpcs
             /\ valid_packets' = v.valid_packets
             /\ invalid_packets' = v.invalid_packets
             /\ calls' = v.calls
             /\ classified' = v.classified
             /\ vstatus' = IF v.res = "ok" THEN "running" ELSE v.res
    /\ nread' = nread + 1
    /\ UNCHANGED <<config_kind, burner_kind, dc_eval, burnvars, passes, server_run>>
    /\ UNCHANGED sinkvars

\* the stream ends: verify returns Ok(())
VerifyEnd ==
    /\ vstatus = "running"
    /\ vstatus' = "ok"
    /\ UNCHANGED <<config_kind, burner_kind, nread, input, org_cache, packets_seen, balances,
                   pending_burns, enabled_clients, server_enabled, rpcs, valid_packets,
                   invalid_packets, calls, classified, dc_eval, burnvars, passes, server_run>>
    /\ UNCHANGED sinkvars

VerNext ==
    \/ VerifyReport
    \/ VerifyEnd

(***************************************************************************)
(* Two verify passes, each of its own Verifier, whose debiter and burner   *)
(* are clones of one Arc<Mutex<HashMap>>.  A pass holds the lock inside    *)
(* debit_if_sufficient and inside burn, not between them, so the passes    *)
(* interleave between the check and the burn.  The outputs and the config  *)
(* flags of the passes are recorded together.  A balance below zero stands *)
(* for the u64 that wrapped: 2^64 plus the number.                         *)
(***************************************************************************)
\* `*balance >= amount` on u64
GeU64(balance, amount) == balance < 0 \/ balance >= amount

ConcInit ==
    /\ config_kind = "mock"
    /\ burner_kind = "ledger"
    /\ vstatus = "running"
    /\ nread = 0
    /\ input = <<>>
    /\ org_cache = <<>>
    /\ packets_seen = {}
    /\ balances = InitBalances
    /\ pending_burns = [p \in Payers |-> 0]
    /\ enabled_clients = <<>>
    /\ server_enabled = [o \in Ouis |-> FALSE]
    /\ rpcs = <<>>
    /\ valid_packets = <<>>
    /\ invalid_packets = <<>>
    /\ calls = <<>>
    /\ classified = <<>>
    /\ dc_eval = DcIdle
    /\ BurnIdle
    /\ PassInit
    /\ ServerIdle

\* the shared state after a part of an iteration
PassAssign(v) ==
    /\ balances' = v.balances
    /\ server_enabled' = v.server_enabled
    /\ valid_packets' = v.valid_packets
    /\ invalid_packets' = v.invalid_packets
    /\ calls' = v.calls
    /\ classified' = v.classified

\* pass i takes a report from its stream and runs the iteration up to the
\* answer of debit_if_sufficient; when the answer is false, to its end
PassCheck(i) ==
    /\ passes[i].pc = "idle"
    /\ nread < MaxReports
    /\ \E report \in Reports :
         LET debit_amount == payload_size_to_dc(report.payload_size)
             packet_id == PacketId(report)
             payer == Owner(report.oui)
             f == fetch_org(VerState, report.oui, "none")
             d == debit_if_sufficient(f, payer, debit_amount, "none")
         IN  /\ input' = Append(input, report)
             /\ IF packet_id \in passes[i].seen
                THEN UNCHANGED <<balances, server_enabled, valid_packets,
                                 invalid_packets, calls, classified, passes>>
                ELSE IF GeU64(d.balances[payer], debit_amount)
                THEN /\ PassAssign(d)
                     /\ passes' = [passes EXCEPT ![i] =
                                      [pc |-> "burn", seen |-> @.seen \cup {packet_id},
                                       report |-> report]]
                ELSE /\ PassAssign(verify_invalid(d, report, "none"))
                     /\ passes' = [passes EXCEPT ![i].seen = @ \cup {packet_id}]
    /\ nread' = nread + 1
    /\ UNCHANGED <<config_kind, burner_kind, vstatus, org_cache, packets_seen,
                   pending_burns, enabled_clients, rpcs, dc_eval, burnvars, server_run>>
    /\ UNCHANGED sinkvars

\* pass i goes on after the answer true: burn, the valid writer, enable_org.
\* `*balance -= amount` below zero panics with overflow checks (the pass
\* dies) and wraps without them
PassBurn(i) ==
    /\ passes[i].pc = "burn"
    /\ LET report == passes[i].report
           debit_amount == payload_size_to_dc(report.payload_size)
           payer == Owner(report.oui)
       IN  \/ /\ PassAssign(verify_valid(VerState, report, payer, debit_amount, "none"))
              /\ passes' = [passes EXCEPT ![i].pc = "idle", ![i].report = NoReport]
           \/ /\ ~GeU64(balances[payer], debit_amount)
              /\ calls' = Call(VerState, "burn", payer, debit_amount).calls
              /\ passes' = [passes EXCEPT ![i].pc = "panicked", ![i].report = NoReport]
              /\ UNCHANGED <<balances, server_enabled, valid_packets, invalid_packets,
                             classified>>
    /\ UNCHANGED <<config_kind, burner_kind, vstatus, nread, input, org_cache,
                   packets_seen, pending_burns, enabled_clients, rpcs, dc_eval, burnvars, server_run>>
    /\ UNCHANGED sinkvars

SomePassCheck == \E i \in Passes : PassCheck(i)

SomePassBurn == \E i \in Passes : PassBurn(i)

ConcNext ==
    \/ SomePassCheck
    \/ SomePassBurn

(***************************************************************************)
(* A CachedOrgClient called directly: any sequence of enable_org and       *)
(* disable_org calls, each of which may fail.                              *)
(***************************************************************************)
\* number of enable_org / disable_org calls in a behaviour
MaxCalls == 4

\* the client as CachedOrgClient::new returns it; vstatus holds the result of
\* the last call
OrgInit ==
    /\ config_kind = "cached"
    /\ burner_kind = "ledger"
    /\ vstatus = "ok"
    /\ nread = 0
    /\ input = <<>>
    /\ org_cache = <<>>
    /\ packets_seen = {}
    /\ balances = InitBalances
    /\ pending_burns = [p \in Payers |-> 0]
    /\ enabled_clients = <<>>
    /\ server_enabled \in {[o \in Ouis |-> b] : b \in BOOLEAN}
    /\ rpcs = <<>>
    /\ valid_packets = <<>>
    /\ invalid_packets = <<>>
    /\ calls = <<>>
    /\ classified = <<>>
    /\ dc_eval = DcIdle
    /\ BurnIdle
    /\ PassIdle
    /\ ServerIdle

\* the fields of the client a call works on
OrgAssign(v) ==
    /\ enabled_clients' = v.enabled_clients
    /\ server_enabled' = v.server_enabled
    /\ rpcs' = v.rpcs
    /\ calls' = v.calls
    /\ vstatus' = v.res
    /\ UNCHANGED <<config_kind, burner_kind, nread, input, org_cache, packets_seen,
                   balances, pending_burns, valid_packets, invalid_packets, classified,
                   dc_eval, burnvars, passes, server_run>>
    /\ UNCHANGED sinkvars

\* a call of CachedOrgClient::enable_org
CallEnableOrg ==
    /\ Len(calls) < MaxCalls
    /\ \E oui \in Ouis, fail \in {"none", "enable_org", "enable_rpc"} :
           OrgAssign(enable_org(VerState, oui, fail))

\* a call of CachedOrgClient::disable_org
CallDisableOrg ==
    /\ Len(calls) < MaxCalls
    /\ \E oui \in Ouis, fail \in {"none", "disable_org", "disable_rpc"} :
           OrgAssign(disable_org(VerState, oui, fail))

OrgNext ==
    \/ CallEnableOrg
    \/ CallDisableOrg

(***************************************************************************)
(* payload_size_to_dc evaluated on two payload sizes.                      *)
(***************************************************************************)
DcInit ==
    /\ dc_eval \in [a : 0..MaxPayloadSize, b : 0..MaxPayloadSize, out : {<<>>}]
    /\ config_kind = "mock"
    /\ burner_kind = "ledger"
    /\ vstatus = "ok"
    /\ nread = 0
    /\ input = <<>>
    /\ org_cache = <<>>
    /\ packets_seen = {}
    /\ balances = InitBalances
    /\ pending_burns = [p \in Payers |-> 0]
    /\ enabled_clients = <<>>
    /\ server_enabled = [o \in Ouis |-> FALSE]
    /\ rpcs = <<>>
    /\ valid_packets = <<>>
    /\ invalid_packets = <<>>
    /\ calls = <<>>
    /\ classified = <<>>
    /\ BurnIdle
    /\ PassIdle
    /\ ServerIdle

\* let debit_amount = payload_size_to_dc(report.payload_size as u64)
ComputeDc ==
    /\ dc_eval.out = <<>>
    /\ dc_eval' = [dc_eval EXCEPT !.out = <<payload_size_to_dc(dc_eval.a),
                                            payload_size_to_dc(dc_eval.b)>>]
    /\ UNCHANGED <<config_kind, burner_kind, vstatus, nread, input, org_cache,
                   packets_seen, balances, pending_burns, enabled_clients,
                   server_enabled, rpcs, valid_packets, invalid_packets, calls,
                   classified, burnvars, passes, server_run>>
    /\ UNCHANGED sinkvars

(***************************************************************************)
(* poc_mobile_verifier's run_server (server.rs): the spawned Verifier::run, *)
(* the run loops of the three file sinks and of the uploader, and the      *)
(* try_join! over them.  Of a sink's run only its way out is kept: the     *)
(* shutdown arm, and the tick arm's `?`; its tick and message arms that    *)
(* return Ok leave the loop where it is.                                   *)
(***************************************************************************)
\* run_server at its try_join!: everything created, the verifier spawned
ServerInit ==
    /\ config_kind = "mock"
    /\ burner_kind = "ledger"
    /\ vstatus = "ok"
    /\ nread = 0
    /\ input = <<>>
    /\ org_cache = <<>>
    /\ packets_seen = {}
    /\ balances = [p \in Payers |-> 0]
    /\ pending_burns = [p \in Payers |-> 0]
    /\ enabled_clients = <<>>
    /\ server_enabled = [o \in Ouis |-> FALSE]
    /\ rpcs = <<>>
    /\ valid_packets = <<>>
    /\ invalid_packets = <<>>
    /\ calls = <<>>
    /\ classified = <<>>
    /\ dc_eval = DcIdle
    /\ BurnIdle
    /\ PassIdle
    /\ server_run = [shutdown |-> FALSE, verifier |-> "top",
                     sinks |-> [s \in ServerSinks |-> "running"],
                     file_upload |-> "running", result |-> "pending"]

\* what run_server's tasks leave alone
ServerFrame ==
    /\ UNCHANGED <<config_kind, burner_kind, vstatus, nread, input, org_cache,
                   packets_seen, balances, pending_burns, enabled_clients,
                   server_enabled, rpcs, valid_packets, invalid_packets, calls,
                   classified, dc_eval, burnvars, passes>>
    /\ UNCHANGED sinkvars

\* shutdown_trigger.trigger(): every clone of the listener becomes ready
TriggerShutdown ==
    /\ ~server_run.shutdown
    /\ server_run' = [server_run EXCEPT !.shutdown = TRUE]
    /\ ServerFrame

\* Verifier::run, top of the loop: the verify epoch is long enough and
\* verify_epoch returns Ok, or it is too short and is skipped
VerifierVerifyEpoch ==
    /\ server_run.verifier = "top"
    /\ server_run' = [server_run EXCEPT !.verifier = "verified"]
    /\ ServerFrame

\* Verifier::run: reward_shares returns Ok, or the rewards epoch is too short
VerifierRewardShares ==
    /\ server_run.verifier = "verified"
    /\ server_run' = [server_run EXCEPT !.verifier = "sleep"]
    /\ ServerFrame

\* Verifier::run: sleep(verification_period) is over, the loop starts again;
\* nothing in the loop looks at the shutdown signal
VerifierSleep ==
    /\ server_run.verifier = "sleep"
    /\ server_run' = [server_run EXCEPT !.verifier = "top"]
    /\ ServerFrame

\* Verifier::run: the `?` on verify_epoch or on reward_shares returns the error
VerifierFail ==
    /\ server_run.verifier \in {"top", "verified"}
    /\ server_run' = [server_run EXCEPT !.verifier = "failed"]
    /\ ServerFrame

\* FileSink::run of sink s: select! takes the shutdown arm, the loop breaks
\* and run returns Ok(())
SinkRunShutdown(s) ==
    /\ server_run.result = "pending"
    /\ server_run.shutdown
    /\ server_run.sinks[s] = "running"
    /\ server_run' = [server_run EXCEPT !.sinks[s] = "stopped"]
    /\ ServerFrame

\* FileSink::run of sink s: the tick arm's maybe_roll returns an error and
\* the `?` returns it
SinkRunFail(s) ==
    /\ server_run.result = "pending"
    /\ server_run.sinks[s] = "running"
    /\ server_run' = [server_run EXCEPT !.sinks[s] = "failed"]
    /\ ServerFrame

\* FileUpload::run returns Ok(()) once the shutdown signal has fired
FileUploadShutdown ==
    /\ server_run.result = "pending"
    /\ server_run.shutdown
    /\ server_run.file_upload = "running"
    /\ server_run' = [server_run EXCEPT !.file_upload = "stopped"]
    /\ ServerFrame

\* some future of the try_join! returned an error
AnyFailed(r) ==
    \/ r.verifier = "failed"
    \/ \E s \in ServerSinks : r.sinks[s] = "failed"

\* every future of the try_join! returned Ok; Verifier::run has no way out
\* of its loop but an error, so it has no state in which it returned Ok
AllOk(r) ==
    /\ r.verifier = "returned"
    /\ \A s \in ServerSinks : r.sinks[s] = "stopped"
    /\ r.file_upload = "stopped"

\* tokio::try_join!: completes with the first error, or with Ok when every
\* future has completed with Ok; run_server returns the result
TryJoin ==
    /\ server_run.result = "pending"
    /\ AnyFailed(server_run) \/ AllOk(server_run)
    /\ server_run' = [server_run EXCEPT
                         !.result = IF AnyFailed(server_run) THEN "err" ELSE "ok"]
    /\ ServerFrame

SomeSinkRunShutdown == \E s \in ServerSinks : SinkRunShutdown(s)

SomeSinkRunFail == \E s \in ServerSinks : SinkRunFail(s)

ServerNext ==
    \/ TriggerShutdown
    \/ VerifierVerifyEpoch
    \/ VerifierRewardShares
    \/ VerifierSleep
    \/ VerifierFail
    \/ SomeSinkRunShutdown
    \/ SomeSinkRunFail
    \/ FileUploadShutdown
    \/ TryJoin

\* the verifier before a pass, while the sink is looked at
VerIdle ==
    /\ config_kind = "mock"
    /\ burner_kind = "ledger"
    /\ vstatus = "ok"
    /\ nread = 0
    /\ input = <<>>
    /\ org_cache = <<>>
    /\ packets_seen = {}
    /\ balances = [p \in Payers |-> 0]
    /\ pending_burns = [p \in Payers |-> 0]
    /\ enabled_clients = <<>>
    /\ server_enabled = [o \in Ouis |-> FALSE]
    /\ rpcs = <<>>
    /\ valid_packets = <<>>
    /\ invalid_packets = <<>>
    /\ calls = <<>>
    /\ classified = <<>>
    /\ dc_eval = DcIdle
    /\ BurnIdle
    /\ PassIdle
    /\ ServerIdle

\* the sink before it is created, while the verifier is looked at
SinkIdle ==
    /\ now = 0
    /\ tmp_dir = <<>>
    /\ target_dir = <<>>
    /\ active_sink = None
    /\ messages = <<>>
    /\ senders = FALSE
    /\ nsent = 0
    /\ has_deposits = FALSE
    /\ deposits = <<>>
    /\ status = "none"
    /\ rollover_timer = 0
    /\ creates = 0
    /\ written = <<>>
    /\ announced = {}

(***************************************************************************)
(* Specifications: Spec is the file sink with its producers, its uploader  *)
(* and the clock; SpecVerify is one pass of the verifier.                  *)
(***************************************************************************)
vars == <<sinkvars, vervars>>

Init == SinkInit /\ VerIdle

Next == SinkNext

Spec == Init /\ [][Next]_vars

InitVerify == VerInit /\ SinkIdle

NextVerify == VerNext

SpecVerify == InitVerify /\ [][NextVerify]_vars

InitOrg == OrgInit /\ SinkIdle

NextOrg == OrgNext

SpecOrg == InitOrg /\ [][NextOrg]_vars

InitDc == DcInit /\ SinkIdle

NextDc == ComputeDc

SpecDc == InitDc /\ [][NextDc]_vars

InitBurn == VerIdle /\ SinkIdle

NextBurn == BurnNext

SpecBurn == InitBurn /\ [][NextBurn]_vars

InitShared == SharedInit /\ VerIdle

NextShared == SinkNext

SpecShared == InitShared /\ [][NextShared]_vars

InitConc == ConcInit /\ SinkIdle

NextConc == ConcNext

SpecConc == InitConc /\ [][NextConc]_vars

InitIo == SinkInit /\ VerIdle

NextIo == SinkIoNext

SpecIo == InitIo /\ [][NextIo]_vars

InitServer == ServerInit /\ SinkIdle

NextServer == ServerNext

SpecServer == InitServer /\ [][NextServer]_vars

\* every task that can take a step is scheduled in the end, select! takes an
\* arm that stays ready, and the try_join! notices a future that completed;
\* no fairness for the shutdown signal or for errors
SpecServerFair ==
    /\ SpecServer
    /\ WF_vars(VerifierVerifyEpoch)
    /\ WF_vars(VerifierRewardShares)
    /\ WF_vars(VerifierSleep)
    /\ \A s \in ServerSinks : WF_vars(SinkRunShutdown(s))
    /\ WF_vars(FileUploadShutdown)
    /\ WF_vars(TryJoin)

(***************************************************************************)
(* Notions the properties of the sink are stated with.                     *)
(***************************************************************************)
\* the sum of the lengths of a sequence of payloads
RECURSIVE SumLen(_)
SumLen(frames) ==
    IF frames = <<>> THEN 0 ELSE Len(Head(frames)) + SumLen(Tail(frames))

\* the name with the smallest timestamp among the names S
Oldest(S) == CHOOSE n \in S : \A m \in S : n.ms <= m.ms

\* the frames of the files named S of a directory, in filename timestamp order
RECURSIVE FramesOf(_, _)
FramesOf(dir, S) ==
    IF S = {} THEN <<>>
    ELSE Decode(dir[Oldest(S)].bytes) \o FramesOf(dir, S \ {Oldest(S)})

\* frames is a run of consecutive elements of seq
IsRunOf(frames, seq) ==
    \E i \in 0..(Len(seq) - Len(frames)) :
        \A j \in 1..Len(frames) : frames[j] = seq[i + j]

\* this step is a create call
CreateStep == creates' = creates + 1

\* the paths the create call of this step enqueued on the deposit channel
NewNotices ==
    LET base == IF status \in {"none", "ready"} THEN Len(deposits) ELSE 0
    IN  SubSeq(deposits', base + 1, Len(deposits'))

\* how often x occurs in seq
Count(seq, x) == Cardinality({i \in 1..Len(seq) : seq[i] = x})

\* this step is run returning Ok (shutdown signal or end of stream)
RunReturnsStep == status = "running" /\ status' = "stopped"

\* this step is a rollover tick that run survives
TickStep ==
    /\ status = "running"
    /\ status' = "running"
    /\ rollover_timer' # rollover_timer

\* the largest framed record of the model: 4-byte prefix plus payload
MaxRecordLen == 4 + CHOOSE l \in PayloadLens : \A k \in PayloadLens : k <= l

(***************************************************************************)
(* C1. Round trip: when the first run over the directories has returned    *)
(* after a clean shutdown, the frames of the files of the target           *)
(* directory, in filename timestamp order, are exactly the payloads        *)
(* written, in order.                                                      *)
(***************************************************************************)
C1_RoundTrip ==
    (status = "stopped" /\ creates = 1)
        => FramesOf(target_dir, Matching(target_dir, FILE_NAME)) = written

(***************************************************************************)
(* C2. When run returns, the file that was active is in the target         *)
(* directory, no file of the tag remains in tmp, and the active slot is    *)
(* empty.                                                                  *)
(***************************************************************************)
C2_RunPromotesOnReturn ==
    [][RunReturnsStep =>
          /\ active_sink' = None
          /\ Matching(tmp_dir', FILE_NAME) = {}
          /\ active_sink # None => active_sink[1].path \in DOMAIN target_dir']_vars

(***************************************************************************)
(* C3. Crash recovery: every file of the tag that is in tmp when create is *)
(* called is, after create, in the target directory and not in tmp, and    *)
(* with a deposit channel that create call has enqueued exactly one        *)
(* notification for it.                                                    *)
(***************************************************************************)
C3_RecoveryNotifiesOnce ==
    [][CreateStep =>
          \A f \in Matching(tmp_dir, FILE_NAME) :
              /\ f \in DOMAIN target_dir'
              /\ f \notin DOMAIN tmp_dir'
              /\ has_deposits => Count(NewNotices, f) = 1]_vars

(***************************************************************************)
(* C4. Recovery idempotence: when create is run a second time right after  *)
(* the first, the target directory is unchanged, tmp holds no file of the  *)
(* tag, and each of the two calls announced every file of the tag in the   *)
(* target directory exactly once.  (At the second call the deposit channel *)
(* holds what the first call announced: nothing has taken from it.)        *)
(***************************************************************************)
C4_RecoveryIdempotent ==
    [][(CreateStep /\ creates = 1 /\ status = "ready") =>
          /\ target_dir' = target_dir
          /\ Matching(tmp_dir', FILE_NAME) = {}
          /\ has_deposits =>
                /\ \A f \in Matching(target_dir, FILE_NAME) : Count(deposits, f) = 1
                /\ status' = "ready" =>
                      \A f \in Matching(target_dir', FILE_NAME) :
                          Count(NewNotices, f) = 1]_vars

C6_FramedSizeBound ==
    \A f \in Matching(target_dir, FILE_NAME) :
        Len(target_dir[f].bytes) <= max_size + MaxRecordLen

(***************************************************************************)
(* C6, amended. The payload length of every promoted file (the sum of the  *)
(* payload lengths of its records, without the length prefixes) is below   *)
(* max_size unless the file holds a single record; so it is at most        *)
(* max_size plus the size of one record.                                   *)
(***************************************************************************)
C6_PayloadSizeBound ==
    \A f \in Matching(target_dir, FILE_NAME) :
        LET frames == Decode(target_dir[f].bytes)
        IN  /\ Len(frames) > 1 => SumLen(frames) < max_size
            /\ SumLen(frames) <= max_size + (MaxRecordLen - 4)

\* a promoted file holds two records, and more framed bytes than max_size
C6_Witness ==
    \E f \in Matching(target_dir, FILE_NAME) :
        /\ Len(Decode(target_dir[f].bytes)) = 2
        /\ Len(target_dir[f].bytes) > max_size

(***************************************************************************)
(* C7. Time bound: a file that is at least roll_time old at a rollover     *)
(* tick is sealed and promoted by that tick.                               *)
(***************************************************************************)
C7_TickRollsOldFile ==
    [][(TickStep /\ active_sink # None /\ active_sink[1].time + roll_time <= now) =>
          /\ active_sink' = None
          /\ active_sink[1].path \in DOMAIN target_dir']_vars

(***************************************************************************)
(* C8. Ordering: a file is promoted only when no file of the tag in the    *)
(* target directory was opened later, and the records of every file of the *)
(* tag, in tmp or promoted, are consecutive payloads of the sequence       *)
(* written, in that order.                                                 *)
(***************************************************************************)
C8_Ordering ==
    /\ [](\A f \in Matching(target_dir, FILE_NAME) :
              IsRunOf(Decode(target_dir[f].bytes), written))
    /\ [](\A f \in Matching(tmp_dir, FILE_NAME) :
              IsRunOf(Decode(tmp_dir[f].bytes), written))
    /\ [][\A f \in Matching(target_dir', FILE_NAME) \ Matching(target_dir, FILE_NAME) :
              \A g \in Matching(target_dir, FILE_NAME) : g.ms <= f.ms]_vars

\* two files were promoted one after the other, one of them with two records
C8_Witness ==
    /\ Cardinality(Matching(target_dir, FILE_NAME)) >= 2
    /\ \E f \in Matching(target_dir, FILE_NAME) :
           Len(Decode(target_dir[f].bytes)) = 2

(***************************************************************************)
(* C9. Promotion precedes notification: whenever a path is enqueued on the *)
(* deposit channel the file is already at that path in the target          *)
(* directory.                                                              *)
(***************************************************************************)
C9_PromotedBeforeNotified ==
    \A a \in announced : a.present

\* a roll in a running sink and a create's recovery have both notified
C9_Witness ==
    /\ \E a \in announced : a.path.ms > 0
    /\ \E a \in announced : a.path.ms = 0
    /\ \A a \in announced : a.path \in DOMAIN target_dir

(***************************************************************************)
(* C10. Verifier dedup: within a pass no packet id (timestamp, oui, hash)  *)
(* has more than one record emitted, over both outputs; and a report whose *)
(* packet id was seen before causes no collaborator call and no output.    *)
(***************************************************************************)
C10_Dedup ==
    /\ [](\A i, j \in 1..Len(classified) : classified[i].id = classified[j].id => i = j)
    /\ [](Len(classified) = Len(valid_packets) + Len(invalid_packets))
    /\ [][(nread' = nread + 1 /\ packets_seen' = packets_seen) =>
              /\ calls' = calls
              /\ rpcs' = rpcs
              /\ valid_packets' = valid_packets
              /\ invalid_packets' = invalid_packets
              /\ balances' = balances
              /\ pending_burns' = pending_burns]_vars

\* a report was read a second time after its first occurrence was classified
C10_Witness ==
    /\ nread = 3
    /\ vstatus = "running"
    /\ Len(classified) = 1
    /\ Cardinality(packets_seen) = 1

(***************************************************************************)
(* The classification the reports read so far should get: report i is a    *)
(* duplicate when an earlier report has its packet id; otherwise it is      *)
(* valid iff the payer's balance before the pass, less the debit amounts of *)
(* the payer's earlier valid reports, covers its debit amount.              *)
(***************************************************************************)
NonDup(i) == \A j \in 1..(i - 1) : PacketId(input[j]) # PacketId(input[i])

RECURSIVE ValidAt(_)
RECURSIVE Spent(_, _)
Spent(p, i) ==
    IF i <= 1 THEN 0
    ELSE Spent(p, i - 1) +
         (IF NonDup(i - 1) /\ Owner(input[i - 1].oui) = p /\ ValidAt(i - 1)
          THEN payload_size_to_dc(input[i - 1].payload_size) ELSE 0)

ValidAt(i) ==
    LET p == Owner(input[i].oui)
    IN  InitBalances[p] - Spent(p, i) >= payload_size_to_dc(input[i].payload_size)

RECURSIVE Expected(_, _)
Expected(valid, n) ==
    IF n = 0 THEN <<>>
    ELSE IF NonDup(n) /\ (ValidAt(n) <=> valid)
         THEN Append(Expected(valid, n - 1),
                     [payload_size |-> input[n].payload_size,
                      gateway |-> input[n].gateway,
                      payload_hash |-> input[n].payload_hash])
         ELSE Expected(valid, n - 1)

(***************************************************************************)
(* C11. Verifier classification: after a pass that completed without error *)
(* with the balance map as debiter and burner, the valid output holds, in   *)
(* input order, exactly the non-duplicate reports whose debit amount the    *)
(* payer's balance less its earlier valid debits covers, and the invalid    *)
(* output holds, in input order, exactly the other non-duplicate reports.   *)
(***************************************************************************)
C11_Classification ==
    (burner_kind = "ledger" /\ vstatus = "ok") =>
        /\ valid_packets = Expected(TRUE, Len(input))
        /\ invalid_packets = Expected(FALSE, Len(input))

\* a completed pass of three reports, one of them a duplicate, one valid and
\* one invalid
C11_Witness ==
    /\ burner_kind = "ledger"
    /\ vstatus = "ok"
    /\ Len(input) = 3
    /\ Len(valid_packets) = 1
    /\ Len(invalid_packets) = 1

(***************************************************************************)
(* C12. Final enable state: after a pass that completed without error,     *)
(* every org with a report is enabled at the config server iff the record  *)
(* emitted for its last non-duplicate report went to the valid output.     *)
(***************************************************************************)
LastOf(oui) ==
    CHOOSE i \in 1..Len(input) :
        /\ input[i].oui = oui
        /\ NonDup(i)
        /\ \A j \in (i + 1)..Len(input) : input[j].oui = oui => ~NonDup(j)

IsSet(m, oui, b) == oui \in DOMAIN m /\ m[oui] = b

NewRpcs(op, oui) ==
    Cardinality({i \in (Len(rpcs) + 1)..Len(rpcs') :
                     rpcs'[i].op = op /\ rpcs'[i].oui = oui})

C13_EdgeTriggered ==
    [][\A oui \in Ouis :
          /\ NewRpcs("enable", oui) =
                IF IsSet(enabled_clients', oui, TRUE) /\ ~IsSet(enabled_clients, oui, TRUE)
                THEN 1 ELSE 0
          /\ NewRpcs("disable", oui) =
                IF IsSet(enabled_clients', oui, FALSE) /\ ~IsSet(enabled_clients, oui, FALSE)
                THEN 1 ELSE 0]_vars

(***************************************************************************)
(* C14. Debit accounting: whenever a pass has ended, with Ok or with an    *)
(* error, the amounts passed to burn for a payer during the pass add up to  *)
(* the debit amounts of the payer's packets emitted to the valid output.    *)
(***************************************************************************)
RECURSIVE BurnSum(_, _)
BurnSum(p, n) ==
    IF n = 0 THEN 0
    ELSE BurnSum(p, n - 1) +
         (IF calls[n].op = "burn" /\ calls[n].arg = p THEN calls[n].amount ELSE 0)

RECURSIVE ValidSum(_, _)
ValidSum(p, n) ==
    IF n = 0 THEN 0
    ELSE ValidSum(p, n - 1) +
         (IF classified[n].valid /\ Owner(classified[n].id.oui) = p
          THEN classified[n].amount ELSE 0)

C14_DebitAccounting ==
    vstatus # "running" =>
        \A p \in Payers : BurnSum(p, Len(calls)) = ValidSum(p, Len(classified))

(***************************************************************************)
(* C15. Debit quantum: payload_size_to_dc(s) is the floor of max(s, 24)/24: *)
(* the q with 24 q <= max(s, 24) < 24 (q + 1); it is 1 for every s in       *)
(* 0..47, never 0, and non-decreasing in s.                                 *)
(***************************************************************************)
IsFloorQuantum(s, q) ==
    LET m == IF s >= 24 THEN s ELSE 24
    IN  24 * q <= m /\ m < 24 * (q + 1)

C15_DebitQuantum ==
    dc_eval.out # <<>> =>
        /\ IsFloorQuantum(dc_eval.a, dc_eval.out[1])
        /\ IsFloorQuantum(dc_eval.b, dc_eval.out[2])
        /\ dc_eval.a \in 0..47 => dc_eval.out[1] = 1
        /\ dc_eval.out[1] >= 1
        /\ dc_eval.a <= dc_eval.b => dc_eval.out[1] <= dc_eval.out[2]

\* the function was evaluated below, at and above a multiple of the quantum
C15_Witness ==
    /\ dc_eval.out = <<1, 2>>
    /\ dc_eval.a = 47
    /\ dc_eval.b = 48

(***************************************************************************)
(* C16. Verifier fail-fast: a pass that ended with an error ended in the   *)
(* collaborator call that failed, which is the last call of the pass, with  *)
(* the error variant of that collaborator; after it no report is read, no   *)
(* collaborator is called and nothing is written.                           *)
(***************************************************************************)
OriginOf(op) ==
    CASE op \in {"fetch_org", "enable_org", "disable_org"} -> "ConfigError"
      [] op = "debit_if_sufficient" -> "DebitError"
      [] op = "burn" -> "BurnError"
      [] op = "write_valid" -> "ValidPacketWriterError"
      [] op = "write_invalid" -> "InvalidPacketWriterError"

Failed == vstatus \notin {"running", "ok"}

C16_FailFast ==
    /\ [](Failed => /\ calls # <<>>
                    /\ vstatus = OriginOf(calls[Len(calls)].op))
    /\ [][Failed => /\ input' = input
                    /\ calls' = calls
                    /\ rpcs' = rpcs
                    /\ valid_packets' = valid_packets
                    /\ invalid_packets' = invalid_packets
                    /\ balances' = balances
                    /\ pending_burns' = pending_burns
                    /\ enabled_clients' = enabled_clients
                    /\ vstatus' = vstatus]_vars

\* the second report of a pass failed in the valid writer, after a first
\* report that was classified
C16_Witness ==
    /\ vstatus = "ValidPacketWriterError"
    /\ nread = 2
    /\ Len(classified) = 1
    /\ calls[Len(calls)].op = "write_valid"

(***************************************************************************)
(* C17. Burn threshold: the worker sends no transaction for a payer whose  *)
(* row is below BURN_THRESHOLD, a transaction burns the amount of the row, *)
(* the row and the in-memory balance are decremented by a burned amount in  *)
(* one step (never one without the other), and no transaction is sent for   *)
(* a payer while an earlier confirmed one is not yet taken off its row.     *)
(***************************************************************************)
TxStep == Len(chain_txs') = Len(chain_txs) + 1

C17_BurnThreshold ==
    /\ [][TxStep =>
            LET tx == chain_txs'[Len(chain_txs')]
            IN  /\ tx.amount >= BURN_THRESHOLD
                /\ tx.amount <= pending_burns[tx.payer]
                /\ \A i \in 1..Len(chain_txs) :
                       chain_txs[i].payer = tx.payer => chain_txs[i].settled]_vars
    /\ [][\A p \in Payers :
            (pending_burns'[p] < pending_burns[p]) <=> (burned'[p] < burned[p])]_vars

(***************************************************************************)
(* C18. End-of-stream as graceful shutdown: when run returns with every    *)
(* sender dropped and the channel drained (all messages enqueued before the *)
(* close were handed to write), the file that was active is sealed and      *)
(* promoted: the slot is empty, no file of the tag is in tmp and the file   *)
(* is in the target directory.                                              *)
(***************************************************************************)
C18_EofGraceful ==
    [][(RunReturnsStep /\ ~senders /\ messages = <<>>) =>
          /\ active_sink' = None
          /\ \A f \in Matching(tmp_dir, FILE_NAME) :
                 f \notin DOMAIN tmp_dir' /\ f \in DOMAIN target_dir']_vars

(***************************************************************************)
(* C20. maybe_roll: a rollover tick seals, promotes and clears the active  *)
(* file if and only if there is one and opened_at + roll_time <= now;       *)
(* otherwise it leaves the active file open and the directories unchanged.  *)
(***************************************************************************)
C20_MaybeRollIff ==
    [][TickStep =>
          IF active_sink # None /\ active_sink[1].time + roll_time <= now
          THEN /\ active_sink' = None
               /\ active_sink[1].path \notin DOMAIN tmp_dir'
               /\ active_sink[1].path \in DOMAIN target_dir'
          ELSE /\ active_sink' = active_sink
               /\ tmp_dir' = tmp_dir
               /\ target_dir' = target_dir]_vars

(***************************************************************************)
(* C19. Cross-sink isolation: no operation of the sink renames, changes or *)
(* removes a file of another sink (a file whose tag is not the sink's tag), *)
(* in tmp or in the target directory, or announces one to the uploader,    *)
(* also when the other sink's tag starts with this sink's tag.             *)
(***************************************************************************)
Foreign(dir) == {n \in DOMAIN dir : n.tag # FILE_NAME}

C19_CrossSinkIsolation ==
    [][/\ Foreign(tmp_dir') = Foreign(tmp_dir)
       /\ Foreign(target_dir') = Foreign(target_dir)
       /\ \A n \in Foreign(tmp_dir) : tmp_dir'[n] = tmp_dir[n]
       /\ \A n \in Foreign(target_dir) : target_dir'[n] = target_dir[n]
       /\ \A a \in announced' \ announced : a.path.tag = FILE_NAME]_vars

(***************************************************************************)
(* Notions of the claims about FileSink::write.                            *)
(***************************************************************************)
\* this step is run taking a message from the channel and handing it to
\* write, which returned (Ok, or an error that run logs)
WriteStep ==
    /\ status = "running"
    /\ status' = "running"
    /\ messages # <<>>
    /\ messages' = Tail(messages)

\* the file of the active slot after the step holds exactly the record buf
FirstFrameOfNew(buf) ==
    /\ active_sink' # None
    /\ active_sink'[1].open
    /\ active_sink'[1].path \in DOMAIN tmp_dir'
    /\ ~tmp_dir'[active_sink'[1].path].sealed
    /\ Decode(tmp_dir'[active_sink'[1].path].bytes) = <<buf>>

(***************************************************************************)
(* C21. Size-triggered roll in write: with a file active and               *)
(* bytes_written + len(bytes) >= max_size the current file is sealed and   *)
(* promoted and the record is the first frame of a new file; with          *)
(* bytes_written + len(bytes) < max_size the record is appended to the     *)
(* current file and nothing is promoted; with no file active one is opened *)
(* with bytes_written = 0 and gets the record.                             *)
(***************************************************************************)
C21_SizeRoll ==
    [][WriteStep =>
          LET buf == Head(messages)
          IN  IF active_sink = None
              THEN /\ FirstFrameOfNew(buf)
                   /\ active_sink'[1].size = Len(buf)
                   /\ target_dir' = target_dir
              ELSE IF active_sink[1].size + Len(buf) >= max_size
              THEN /\ active_sink[1].path \in DOMAIN target_dir'
                   /\ target_dir'[active_sink[1].path].sealed
                   /\ FirstFrameOfNew(buf)
                   /\ active_sink'[1].size = Len(buf)
              ELSE /\ active_sink' # None
                   /\ active_sink'[1].path = active_sink[1].path
                   /\ active_sink[1].path \in DOMAIN tmp_dir
                   /\ active_sink[1].path \in DOMAIN tmp_dir'
                   /\ tmp_dir'[active_sink[1].path].bytes =
                          tmp_dir[active_sink[1].path].bytes \o Frame(buf)
                   /\ target_dir' = target_dir]_vars

\* the file the active slot refers to: in tmp, or promoted by a roll that
\* failed after the rename
ActiveFile ==
    LET a == active_sink[1]
    IN  IF a.path \in DOMAIN tmp_dir THEN tmp_dir[a.path] ELSE target_dir[a.path]

(***************************************************************************)
(* C22. bytes_written as claimed: with an active file, the size counter    *)
(* equals the sum of the frame-prefixed lengths (4-byte prefix plus        *)
(* payload) of the records appended to the file since it was opened.       *)
(***************************************************************************)
C22_FramedCounter ==
    active_sink # None => active_sink[1].size = Len(ActiveFile.bytes)

(***************************************************************************)
(* C22, amended. With an active file, the size counter equals the sum of   *)
(* the payload lengths of the records appended to the file since it was    *)
(* opened; the 4-byte length prefixes are not counted.                     *)
(***************************************************************************)
C22_PayloadCounter ==
    active_sink # None =>
        /\ active_sink[1].path \in DOMAIN tmp_dir \cup DOMAIN target_dir
        /\ active_sink[1].size = SumLen(Decode(ActiveFile.bytes))

\* the active file is open and holds two records
C22_Witness ==
    /\ active_sink # None
    /\ active_sink[1].open
    /\ active_sink[1].path \in DOMAIN tmp_dir
    /\ Len(Decode(tmp_dir[active_sink[1].path].bytes)) = 2
    /\ active_sink[1].size = 2

\* this step of the running sink promoted the active file: its bytes are in
\* the target directory under its name
RollStep ==
    /\ status = "running"
    /\ active_sink # None
    /\ active_sink[1].open
    /\ active_sink[1].path \in DOMAIN tmp_dir
    /\ target_dir' # target_dir
    /\ active_sink[1].path \in DOMAIN target_dir'
    /\ target_dir'[active_sink[1].path].bytes = tmp_dir[active_sink[1].path].bytes

\* the roll of this step had a deposit channel and enqueued nothing on it
NotifyFailedStep == RollStep /\ has_deposits /\ deposits' = deposits

(***************************************************************************)
(* C23. Notification failure is non-fatal: when the enqueue of the         *)
(* promoted path fails after the rename, run keeps running, and the roll   *)
(* completes: a roll of maybe_roll leaves the active slot empty, a size    *)
(* roll of write opens the new file and writes the record into it.         *)
(***************************************************************************)
C23_NotifyFailureNonFatal ==
    [][NotifyFailedStep =>
          /\ status' = "running"
          /\ \/ /\ messages' = messages
                /\ active_sink' = None
             \/ /\ messages # <<>>
                /\ messages' = Tail(messages)
                /\ FirstFrameOfNew(Head(messages))
                /\ written' = Append(written, Head(messages))]_vars

(***************************************************************************)
(* C24. Resilient run loop: no filesystem error while a record is written  *)
(* or a file is sealed and promoted at a rollover tick makes run return:   *)
(* in a step in which the notification of the uploader cannot fail (no     *)
(* deposit channel, or room in it), run does not return an error; it ends  *)
(* only by the shutdown signal or the end of the stream.                   *)
(***************************************************************************)
C24_ResilientRun ==
    [][(status = "running" /\ (~has_deposits \/ Len(deposits) < DepositCap))
          => status' # "failed"]_vars

(***************************************************************************)
(* C25. No filename ties within one sink instance: a file the instance     *)
(* opens never has the name of a file it promoted, and promoting a file    *)
(* never replaces, changes or removes a file of the tag that is already    *)
(* in the target directory.  (Stated for the first instance created over   *)
(* the directories.)                                                       *)
(***************************************************************************)
C25_NoFilenameTies ==
    [][(status = "running" /\ creates = 1) =>
          /\ \A f \in Matching(target_dir, FILE_NAME) :
                 f \in DOMAIN target_dir' /\ target_dir'[f] = target_dir[f]
          /\ \A f \in Matching(tmp_dir', FILE_NAME) \cap Matching(target_dir', FILE_NAME) :
                 f \in DOMAIN tmp_dir]_vars

(***************************************************************************)
(* Notions of the claims about direct calls of the CachedOrgClient.        *)
(***************************************************************************)
\* this step is a call of op for oui
OrgCallStep(op, oui) ==
    /\ Len(calls') = Len(calls) + 1
    /\ calls'[Len(calls')].op = op
    /\ calls'[Len(calls')].arg = oui

\* the call of this step sent one request of kind op for oui and no other,
\* or returned an error before it sent any (keypair.sign failed)
IssuedOrFailed(op, oui) ==
    \/ /\ Len(rpcs') = Len(rpcs) + 1
       /\ rpcs'[Len(rpcs')].op = op
       /\ rpcs'[Len(rpcs')].oui = oui
    \/ /\ rpcs' = rpcs
       /\ vstatus' = "ConfigError"

FetchStep(oui) ==
    /\ Len(calls') > Len(calls)
    /\ calls'[Len(calls) + 1].op = "fetch_org"
    /\ calls'[Len(calls) + 1].arg = oui

\* the get requests for oui that succeeded
GetsOk(oui) ==
    {i \in 1..Len(rpcs) : rpcs[i].op = "get" /\ rpcs[i].oui = oui /\ rpcs[i].ok}

C27_OrgCache ==
    /\ [](config_kind = "cached" => \A oui \in Ouis : Cardinality(GetsOk(oui)) <= 1)
    /\ [](config_kind = "cached" =>
             \A i \in 1..(Len(calls) - 1) :
                 (calls[i].op = "fetch_org" /\ calls[i + 1].op = "debit_if_sufficient")
                     => /\ calls[i].arg \in DOMAIN org_cache
                        /\ calls[i + 1].arg = org_cache[calls[i].arg])
    /\ [][config_kind = "cached" =>
             /\ \A o \in DOMAIN org_cache :
                    o \in DOMAIN org_cache' /\ org_cache'[o] = org_cache[o]
             /\ \A oui \in Ouis :
                    /\ NewRpcs("get", oui) =
                          IF FetchStep(oui) /\ oui \notin DOMAIN org_cache THEN 1 ELSE 0
                    /\ NewRpcs("get", oui) = 1 =>
                          org_cache' = IF rpcs'[Len(rpcs) + 1].ok
                                       THEN (oui :> Owner(oui)) @@ org_cache
                                       ELSE org_cache
                    /\ NewRpcs("get", oui) = 0 =>
                          (oui \in DOMAIN org_cache' <=> oui \in DOMAIN org_cache)]_vars

\* a pass with the cached client called fetch_org three times for one oui
\* and sent one get request
C27_Witness ==
    /\ config_kind = "cached"
    /\ \E oui \in Ouis :
          /\ Cardinality({i \in 1..Len(calls) :
                              calls[i].op = "fetch_org" /\ calls[i].arg = oui}) = 3
          /\ Cardinality(GetsOk(oui)) = 1
          /\ Len(rpcs) >= 1
          /\ oui \in DOMAIN org_cache

(***************************************************************************)
(* C28. Atomic debit-if-sufficient under concurrency: with two passes      *)
(* sharing the balance map as debiter and burner, in every state the       *)
(* amounts passed to burn for a payer add up to at most the payer's        *)
(* initial balance, no balance has wrapped below zero and no pass has      *)
(* died in the subtraction.                                                *)
(***************************************************************************)
C28_AtomicDebit ==
    \A p \in Payers :
        /\ BurnSum(p, Len(calls)) <= InitBalances[p]
        /\ balances[p] >= 0
        /\ \A i \in Passes : passes[i].pc # "panicked"

(***************************************************************************)
(* C29. The pending_burns row stays non-negative and loses nothing: with   *)
(* the verifier's upserts interleaved with the worker's iteration, every   *)
(* row is >= 0 in every state; the worker reads the row's amount a, the    *)
(* row does not fall below a until the worker's update, and the update     *)
(* leaves in the row exactly what was added to it since the read.          *)
(***************************************************************************)
\* the worker has read a row and not yet updated it
InFlight == burn_task.pc \in {"selected", "confirmed"}

C29_RowNonNegative ==
    /\ [](\A p \in Payers : pending_burns[p] >= 0)
    /\ [](InFlight => pending_burns[burn_task.payer] >= burn_task.amount)
    /\ [][(burn_task.pc = "idle" /\ burn_task'.pc = "selected")
             => burn_task'.amount = pending_burns[burn_task'.payer]]_vars
    /\ [][\A p \in Payers :
             pending_burns'[p] < pending_burns[p] =>
                 /\ burn_task.pc = "confirmed"
                 /\ p = burn_task.payer
                 /\ pending_burns'[p] = pending_burns[p] - burn_task.amount]_vars

\* the verifier added 1 to a row between the worker's read of 10000 and its
\* update: the row holds 1 after the update
C29_Witness ==
    /\ burn_task.pc = "row_updated"
    /\ burn_task.amount = BURN_THRESHOLD
    /\ pending_burns[burn_task.payer] = 1

(***************************************************************************)
(* C30. Consistent slot after a failed roll: whenever write or maybe_roll  *)
(* has returned an error, the active slot is empty or refers to a file     *)
(* that is open, not sealed and in tmp; so the slot of a running sink      *)
(* never holds a writer that was shut down or whose file was promoted.     *)
(***************************************************************************)
\* this step is a write that returned an error, or a tick whose maybe_roll
\* returned an error
ErrorStep ==
    \/ WriteStep /\ written' = written
    \/ status = "running" /\ status' = "failed"

\* the slot is empty or holds an open writer on an unsealed file of tmp
SlotUsable(slot, dir) ==
    slot # None =>
        /\ slot[1].open
        /\ slot[1].path \in DOMAIN dir
        /\ ~dir[slot[1].path].sealed

C30_SlotAfterFailedRoll ==
    /\ [][ErrorStep => SlotUsable(active_sink', tmp_dir')]_vars
    /\ [](status = "running" => SlotUsable(active_sink, tmp_dir))

(***************************************************************************)
(* C31. Enable flag unchanged on failure: a call of enable_org or          *)
(* disable_org of the CachedOrgClient that returns an error (signing or    *)
(* the request failed) leaves the local enabled map as it was before the   *)
(* call, so the next call for the oui attempts the request again; and the  *)
(* local flag of an oui is true (false) only when an enable (disable)      *)
(* request for it succeeded.                                               *)
(***************************************************************************)
\* this step is a call of enable_org or disable_org that returned an error
OrgCallFailedStep ==
    /\ \E oui \in Ouis : OrgCallStep("enable_org", oui) \/ OrgCallStep("disable_org", oui)
    /\ vstatus' # "ok"

\* a request of kind op for oui was answered without error
Succeeded(op, oui) ==
    \E i \in 1..Len(rpcs) : rpcs[i] = [op |-> op, oui |-> oui, ok |-> TRUE]

C31_FlagUnchangedOnFailure ==
    /\ [][OrgCallFailedStep => enabled_clients' = enabled_clients]_vars
    /\ [](\A oui \in DOMAIN enabled_clients :
             IF enabled_clients[oui] THEN Succeeded("enable", oui)
                                     ELSE Succeeded("disable", oui))

(***************************************************************************)
(* C32. Burn worker stops on shutdown: once Burner::run has returned Ok    *)
(* because the shutdown signal fired, the worker starts no further burn    *)
(* iteration, sends no new transaction and no longer modifies              *)
(* pending_burns or the balance map.                                       *)
(***************************************************************************)
\* this step is a step of the spawned worker task
WorkerStep == burn_task' # burn_task

C32_WorkerStopsOnShutdown ==
    [][burner_run = "returned" =>
          /\ ~(burn_task.pc = "idle" /\ burn_task'.pc = "selected")
          /\ ~TxStep
          /\ WorkerStep => pending_burns' = pending_burns /\ burned' = burned]_vars

(***************************************************************************)
(* C33. Server shutdown terminates: after the shutdown signal is triggered *)
(* run_server eventually returns: the verifier task, the three file sinks  *)
(* and the uploader all finish and the join over them completes.           *)
(***************************************************************************)
C33_ShutdownTerminates ==
    server_run.shutdown ~> server_run.result # "pending"

====
